---- MODULE Spec2Model ----
(***************************************************************************)
(* A model of the ohme client: the Session State Interpreter, the          *)
(* Validation Core, the Vendor Client, the Transport Adapter and the       *)
(* password-grant Identity Client (src/ohme/*.py).                         *)
(*                                                                         *)
(* Python values are tagged records [t |-> type, v |-> pieces].  A string  *)
(* is the sequence of its pieces, so that "Firebase " + token is           *)
(* <<"Firebase ">> \o token and a URL is <<"http", ":", "//", host, ...>>. *)
(***************************************************************************)
EXTENDS Integers, Sequences, FiniteSets, TLC

VARIABLES
    op,          \* the function called ("none" before the first call)
    arg,         \* its arguments
    ret,         \* its outcome: pending, a returned value or a raised exception
    log,         \* the records the call gave to the logging module, in order
    env,         \* os.environ
    schemaFile,  \* ohme_minimum_schema.json on disk
    pc,          \* the statement the call is at ("idle": no call in progress)
    frame,       \* the local variables of the call
    sr,          \* the arguments and local variables of send_request
    raised,      \* the exceptions raised during the call, where they were raised
    sendCalls,   \* calls of send_request during the call
    exchanges,   \* HTTP exchanges performed during the call
    openClients, \* httpx.Client scopes that are open
    fileReads,   \* reads of the schema file by this process
    calls        \* calls of the client made by this process

vars == <<op, arg, ret, log, env, schemaFile, pc, frame, sr, raised, sendCalls,
          exchanges, openClients, fileReads, calls>>

-----------------------------------------------------------------------------
(* Bounds of the model *)

\* longest list of session records / longest JSON array
MaxLen == 3

\* longest token, in pieces
MaxTokenLen == 2

\* longest JSON array the vendor endpoint answers with
MaxBodyLen == 1

\* calls of the client one process makes
MaxCalls == 2

\* all sequences over S of length 0..n
SeqsUpTo(S, n) == UNION {[1..k -> S] : k \in 0..n}

-----------------------------------------------------------------------------
(* Python values *)

None == [t |-> "NoneType", v |-> <<>>]
PyStr(s) == [t |-> "str", v |-> s]
PyInt(s) == [t |-> "int", v |-> s]

\* the outcome of a call: a returned value or a raised exception
Pending == [status |-> "pending"]
Return(v) == [status |-> "return", value |-> v]
Raise(e) == [status |-> "raise", exc |-> e]
Exc(type, msg) == [type |-> type, msg |-> msg, cause |-> <<>>]

\* an exception raised from another: raise Type(prefix + str(e)) from e
Chained(type, prefix, e) == [type |-> type, msg |-> prefix \o e.msg, cause |-> <<e>>]

\* one record of the logging module
LogRec(level, msg, detail) == [level |-> level, msg |-> msg, detail |-> detail]

-----------------------------------------------------------------------------
(* Charge session records *)

\* the modes the code knows (api.py:236, parser.py:130)
known_modes == {<<"DISCONNECTED">>, <<"RETRIEVING_SOC">>, <<"CALCULATING">>, <<"SMART_CHARGE">>}

\* a mode the vendor may introduce later
NewModes == {<<"UNKNOWN_MODE">>}

\* a JSON object with a string mode, a number for a mode, or no mode at all;
\* and a JSON number where an object is expected
DictWithMode(m) == [kind |-> "dict", mtype |-> "str", mode |-> m]
DictWithIntMode == [kind |-> "dict", mtype |-> "int", mode |-> <<"123">>]
DictWithoutMode == [kind |-> "dict", mtype |-> "absent", mode |-> <<>>]
NotADict == [kind |-> "int", mtype |-> "absent", mode |-> <<>>]

SessionRecords == {DictWithMode(m) : m \in known_modes \cup NewModes}
Dicts == SessionRecords \cup {DictWithIntMode, DictWithoutMode}
Elems == Dicts \cup {NotADict}

\* obj.get("mode") of a dict
GetMode(obj) ==
    CASE obj.mtype = "absent" -> None
      [] obj.mtype = "str" -> PyStr(obj.mode)
      [] obj.mtype = "int" -> PyInt(obj.mode)

-----------------------------------------------------------------------------
(* Session State Interpreter: api.is_charging_session_active *)

\* a known_modes list that misses the last mode
NotInKnownModes_incomplete(mode) ==
    mode \notin {PyStr(<<"DISCONNECTED">>), PyStr(<<"RETRIEVING_SOC">>),
                 PyStr(<<"CALCULATING">>)}

\* mode not in known_modes
NotInKnownModes(mode) == mode \notin {PyStr(m) : m \in known_modes}

\* the for loop of api.py:238-243: the records logged, until an element that
\* has no .get (AttributeError) ends the loop
RECURSIVE UnknownModeLoop(_, _)
UnknownModeLoop(cs, i) ==
    IF i > Len(cs) THEN [raised |-> FALSE, log |-> <<>>]
    ELSE IF cs[i].kind # "dict" THEN [raised |-> TRUE, log |-> <<>>]
    ELSE LET rest == UnknownModeLoop(cs, i + 1)
             mine == IF NotInKnownModes(GetMode(cs[i]))
                     THEN <<LogRec("ERROR", "Unknown mode", <<GetMode(cs[i]), cs[i]>>)>>
                     ELSE <<>>
         IN [raised |-> rest.raised, log |-> mine \o rest.log]

\* all() where the code has any()
AnyNotDisconnected_all(cs, i) ==
    \A j \in i..Len(cs) : GetMode(cs[j]) # PyStr(<<"DISCONNECTED">>)

\* any(obj.get("mode") != "DISCONNECTED" for obj in charge_sessions)
RECURSIVE AnyNotDisconnected(_, _)
AnyNotDisconnected(cs, i) ==
    IF i > Len(cs) THEN FALSE
    ELSE IF GetMode(cs[i]) # PyStr(<<"DISCONNECTED">>) THEN TRUE
    ELSE AnyNotDisconnected(cs, i + 1)

is_charging_session_active(cs) ==
    LET loop == UnknownModeLoop(cs, 1)
    IN IF loop.raised
       THEN [out |-> Raise(Exc("AttributeError", <<"object has no attribute 'get'">>)),
             log |-> loop.log]
       ELSE [out |-> Return(AnyNotDisconnected(cs, 1)), log |-> loop.log]

-----------------------------------------------------------------------------
(* Session State Interpreter: parser.is_charging_session_active *)

\* the for loop of parser.py:132-137
RECURSIVE parser_UnknownModeLoop(_, _)
parser_UnknownModeLoop(cs, i) ==
    IF i > Len(cs) THEN [raised |-> FALSE, log |-> <<>>]
    ELSE IF cs[i].kind # "dict" THEN [raised |-> TRUE, log |-> <<>>]
    ELSE LET rest == parser_UnknownModeLoop(cs, i + 1)
             mine == IF GetMode(cs[i]) \notin {PyStr(m) : m \in known_modes}
                     THEN <<LogRec("ERROR", "Unknown mode", <<GetMode(cs[i]), cs[i]>>)>>
                     ELSE <<>>
         IN [raised |-> rest.raised, log |-> mine \o rest.log]

\* parser.py:138
RECURSIVE parser_AnyNotDisconnected(_, _)
parser_AnyNotDisconnected(cs, i) ==
    IF i > Len(cs) THEN FALSE
    ELSE IF GetMode(cs[i]) # PyStr(<<"DISCONNECTED">>) THEN TRUE
    ELSE parser_AnyNotDisconnected(cs, i + 1)

parser_is_charging_session_active(cs) ==
    LET loop == parser_UnknownModeLoop(cs, 1)
    IN IF loop.raised
       THEN [out |-> Raise(Exc("AttributeError", <<"object has no attribute 'get'">>)),
             log |-> loop.log]
       ELSE [out |-> Return(parser_AnyNotDisconnected(cs, 1)), log |-> loop.log]

-----------------------------------------------------------------------------
(* JSON values and the schemas they are validated against *)

\* what response.json() or a caller can hand to validation: null, an array of
\* elements, or an object (not an array)
\* fields holds the fields of an object that the code looks at (idToken,
\* expiresIn, refreshToken) and one it does not (kind); Absent: no such key
Absent == [t |-> "absent", v |-> <<>>]
TokenFieldNames == {"idToken", "expiresIn", "refreshToken"}
FieldNames == TokenFieldNames \cup {"kind"}
NoFields == [k \in FieldNames |-> Absent]

JNull == [t |-> "null", items |-> <<>>, fields |-> NoFields]
JArray(items) == [t |-> "array", items |-> items, fields |-> NoFields]
JObject(fields) == [t |-> "object", items |-> <<>>, fields |-> fields]

JsonArrays == {JArray(items) : items \in SeqsUpTo(Elems, MaxLen)}
JsonValues == JsonArrays \cup {JNull, JObject(NoFields)}

\* an object schema: its "type", the type of its "mode" property and its
\* "required" list ("any": the keyword is absent); ok = FALSE: the document is
\* no valid JSON schema
ObjectSchema(type, modeType, required) ==
    [ok |-> TRUE, type |-> type, modeType |-> modeType, required |-> required]
NotASchema == [ok |-> FALSE, type |-> "any", modeType |-> "any", required |-> {}]

\* the minimum schema of one session record (test_api.py:173-177)
MinimumObjectSchema == ObjectSchema("object", "string", {"mode"})

ObjectSchemas ==
    {ObjectSchema(ty, mt, rq) : ty \in {"object", "any"}, mt \in {"string", "any"},
                                rq \in {{}, {"mode"}}}
    \cup {NotASchema}

\* {"$schema": draft-07, "type": "array", "items": object_schema}
ArraySchema(object_schema) ==
    [schema |-> "http://json-schema.org/draft-07/schema#", type |-> "array",
     items |-> object_schema]

MinimumSchema == ArraySchema(MinimumObjectSchema)
ArraySchemas == {ArraySchema(s) : s \in ObjectSchemas}

\* the violations of one element against an object schema, in keyword order;
\* depth is the length of the violation's path into the instance
ValidationFailure(msg, depth) == [msg |-> msg, depth |-> depth]

ElemErrors(e, s) ==
    (IF s.type = "object" /\ e.kind # "dict"
     THEN <<ValidationFailure(<<"123", " is not of type 'object'">>, 1)>> ELSE <<>>)
    \o (IF e.kind = "dict" /\ s.modeType = "string" /\ e.mtype \notin {"absent", "str"}
        THEN <<ValidationFailure(e.mode \o <<" is not of type 'string'">>, 2)>> ELSE <<>>)
    \o (IF e.kind = "dict" /\ "mode" \in s.required /\ e.mtype = "absent"
        THEN <<ValidationFailure(<<"'mode'", " is a required property">>, 1)>> ELSE <<>>)

\* the violations of every element of an array, in order
RECURSIVE ItemsErrors(_, _, _)
ItemsErrors(items, s, i) ==
    IF i > Len(items) THEN <<>>
    ELSE ElemErrors(items[i], s) \o ItemsErrors(items, s, i + 1)

\* jsonschema's best_match: the first of the shallowest violations
best_match(errs) ==
    LET shallow == SelectSeq(errs, LAMBDA f : f.depth = 1)
    IN IF shallow # <<>> THEN shallow[1] ELSE errs[1]

\* the "type" of the array schema is not enforced
jsonschema_validate_anytype(instance, schema) ==
    IF ~schema.items.ok
    THEN Raise(Exc("SchemaError", <<"is not valid under any of the given schemas">>))
    ELSE LET errs == ItemsErrors(instance.items, schema.items, 1)
         IN IF errs # <<>> THEN Raise(Exc("ValidationError", best_match(errs).msg))
            ELSE Return(None)

\* jsonschema.validate(instance, schema): SchemaError for an invalid schema,
\* else the best-matching ValidationError, else nothing
jsonschema_validate(instance, schema) ==
    IF ~schema.items.ok
    THEN Raise(Exc("SchemaError", <<"is not valid under any of the given schemas">>))
    ELSE IF instance.t # schema.type
    THEN Raise(Exc("ValidationError", <<instance.t, " is not of type 'array'">>))
    ELSE LET errs == ItemsErrors(instance.items, schema.items, 1)
         IN IF errs # <<>> THEN Raise(Exc("ValidationError", best_match(errs).msg))
            ELSE Return(None)

-----------------------------------------------------------------------------
(* Validation Core *)

\* returns what jsonschema.validate returns (None) instead of the object
parser_validate_against_schema_result(array_schema, object_to_validate) ==
    LET v == jsonschema_validate(object_to_validate, array_schema)
    IN IF v.status = "raise"
       THEN [out |-> Raise(v.exc),
             log |-> <<LogRec("ERROR", "Schema validation failed", v.exc.msg)>>]
       ELSE [out |-> Return(v.value), log |-> <<>>]

\* logs the violation and goes on instead of raising it again
parser_validate_against_schema_swallow(array_schema, object_to_validate) ==
    LET v == jsonschema_validate(object_to_validate, array_schema)
    IN IF v.status = "raise"
       THEN [out |-> Return(object_to_validate),
             log |-> <<LogRec("ERROR", "Schema validation failed", v.exc.msg)>>]
       ELSE [out |-> Return(object_to_validate), log |-> <<>>]

\* parser.validate_against_schema(array_schema, object_to_validate)
parser_validate_against_schema(array_schema, object_to_validate) ==
    LET v == jsonschema_validate(object_to_validate, array_schema)
    IN IF v.status = "raise"
       THEN [out |-> Raise(v.exc),
             log |-> <<LogRec("ERROR", "Schema validation failed", v.exc.msg)>>]
       ELSE [out |-> Return(object_to_validate), log |-> <<>>]

\* a response dictionary: hasJson is whether it has the key "json"
Response(status_code, raw_data, hasJson, json, headers) ==
    [status_code |-> status_code, raw_data |-> raw_data, hasJson |-> hasJson,
     json |-> json, headers |-> headers]

\* returns the response dictionary instead of its "json"
validate_against_schema_response(array_schema, response) ==
    IF ~response.hasJson
    THEN [out |-> Raise(Exc("Exception",
                            <<"No json field in response to array_schema request",
                              "response">>)),
          log |-> <<>>]
    ELSE LET v == jsonschema_validate(response.json, array_schema)
         IN IF v.status = "raise"
            THEN [out |-> Raise(v.exc),
                  log |-> <<LogRec("ERROR", "Schema validation failed", v.exc.msg)>>]
            ELSE [out |-> Return(response), log |-> <<>>]

\* a violation is raised without being logged
validate_against_schema_silent(array_schema, response) ==
    IF ~response.hasJson
    THEN [out |-> Raise(Exc("Exception",
                            <<"No json field in response to array_schema request",
                              "response">>)),
          log |-> <<>>]
    ELSE LET response_object == response.json
             v == jsonschema_validate(response_object, array_schema)
         IN IF v.status = "raise"
            THEN [out |-> Raise(v.exc), log |-> <<>>]
            ELSE [out |-> Return(response_object), log |-> <<>>]

\* response.get("json") in place of the test for the key: a missing key is
\* validated as None
validate_against_schema_get(array_schema, response) ==
    LET response_object == IF response.hasJson THEN response.json ELSE JNull
        v == jsonschema_validate(response_object, array_schema)
    IN IF v.status = "raise"
       THEN [out |-> Raise(v.exc),
             log |-> <<LogRec("ERROR", "Schema validation failed", v.exc.msg)>>]
       ELSE [out |-> Return(response_object), log |-> <<>>]

\* api.validate_against_schema(array_schema, response)
validate_against_schema(array_schema, response) ==
    IF ~response.hasJson
    THEN [out |-> Raise(Exc("Exception",
                            <<"No json field in response to array_schema request",
                              "response">>)),
          log |-> <<>>]
    ELSE LET response_object == response.json
             v == jsonschema_validate(response_object, array_schema)
         IN IF v.status = "raise"
            THEN [out |-> Raise(v.exc),
                  log |-> <<LogRec("ERROR", "Schema validation failed", v.exc.msg)>>]
            ELSE [out |-> Return(response_object), log |-> <<>>]

-----------------------------------------------------------------------------
(* Vendor Client: create_headers *)

\* the firebase_token arguments: None, True, 123, lists and dicts (v: their
\* items), and strings (v: their pieces)
TokenPieces == {"a", "b"}
Tokens ==
    {None, [t |-> "bool", v |-> <<>>], [t |-> "int", v |-> <<>>],
     [t |-> "list", v |-> <<>>], [t |-> "list", v |-> <<"x">>],
     [t |-> "dict", v |-> <<>>], [t |-> "dict", v |-> <<"k">>]}
    \cup {PyStr(s) : s \in SeqsUpTo(TokenPieces, MaxTokenLen)}

\* the types len() accepts
HasLen(x) == x.t \in {"str", "list", "dict"}

HeaderNames ==
    {"Connection", "Accept", "User-Agent", "Accept-Language", "Accept-Encoding",
     "Authorization"}

\* the constant headers
StaticHeader(h) ==
    CASE h = "Connection" -> <<"keep-alive">>
      [] h = "Accept" -> <<"*/*">>
      [] h = "User-Agent" -> <<"OhmE/543 CFNetwork/1474 Darwin/23.0.0">>
      [] h = "Accept-Language" -> <<"en-GB,en;q=0.9">>
      [] h = "Accept-Encoding" -> <<"gzip, deflate, br">>

\* a bearer-style Authorization header
create_headers_bearer(firebase_token) ==
    IF firebase_token.t # "str" \/ Len(firebase_token.v) = 0
    THEN Raise(Exc("TypeError", <<"firebase_token must be a string with length > 0">>))
    ELSE Return([h \in HeaderNames |->
                    IF h = "Authorization" THEN <<"Bearer ">> \o firebase_token.v
                    ELSE StaticHeader(h)])

\* only the type of the token is looked at
create_headers_typeonly(firebase_token) ==
    IF firebase_token.t # "str"
    THEN Raise(Exc("TypeError", <<"firebase_token must be a string">>))
    ELSE Return([h \in HeaderNames |->
                    IF h = "Authorization" THEN <<"Firebase ">> \o firebase_token.v
                    ELSE StaticHeader(h)])

\* api.create_headers(firebase_token)
create_headers(firebase_token) ==
    IF firebase_token.t # "str" \/ Len(firebase_token.v) = 0
    THEN IF HasLen(firebase_token)
         THEN Raise(Exc("TypeError",
                        <<"firebase_token must be a string with length > 0, not ",
                          firebase_token.t, " with length ",
                          ToString(Len(firebase_token.v))>>))
         ELSE \* len(firebase_token) inside the message fails first
              Raise(Exc("TypeError",
                        <<"object of type '", firebase_token.t, "' has no len()">>))
    ELSE Return([h \in HeaderNames |->
                    IF h = "Authorization" THEN <<"Firebase ">> \o firebase_token.v
                    ELSE StaticHeader(h)])

-----------------------------------------------------------------------------
(* URLs: urllib.parse *)

\* schemes of urllib.parse.uses_relative and uses_netloc that the model uses
uses_relative == {"http", "https"}
uses_netloc == {"http", "https"}
SchemeNames == uses_relative \cup {"mailto"}

\* urlsplit(url): scheme, whether "//" follows, the host after it, the rest
urlsplit(url) ==
    LET hasScheme == Len(url) >= 2 /\ url[1] \in SchemeNames /\ url[2] = ":"
        afterScheme == IF hasScheme THEN SubSeq(url, 3, Len(url)) ELSE url
        hasNetloc == Len(afterScheme) >= 1 /\ afterScheme[1] = "//"
        afterSlashes == IF hasNetloc THEN SubSeq(afterScheme, 2, Len(afterScheme))
                        ELSE afterScheme
        hasHost == hasNetloc /\ Len(afterSlashes) >= 1 /\ afterSlashes[1] # "/"
    IN [scheme |-> IF hasScheme THEN <<url[1]>> ELSE <<>>,
        netloc |-> IF hasHost THEN <<afterSlashes[1]>> ELSE <<>>,
        path |-> IF hasHost THEN SubSeq(afterSlashes, 2, Len(afterSlashes))
                 ELSE afterSlashes]

\* urlunsplit((scheme, netloc, path, "", ""))
urlunsplit(scheme, netloc, path) ==
    LET withNetloc ==
            IF netloc # <<>> \/ (scheme # <<>> /\ scheme[1] \in uses_netloc)
            THEN <<"//">> \o netloc \o (IF path # <<>> /\ path[1] # "/"
                                         THEN <<"/">> ELSE <<>>) \o path
            ELSE path
    IN IF scheme # <<>> THEN scheme \o <<":">> \o withNetloc ELSE withNetloc

\* urljoin(base, url) for a url that is an absolute path ("/..."): the path
\* replaces the path of the base
urljoin(base, url) ==
    IF base = <<>> THEN url
    ELSE LET b == urlsplit(base)
         IN IF b.scheme # <<>> /\ b.scheme[1] \notin uses_relative THEN url
            ELSE urlunsplit(b.scheme, b.netloc, url)

-----------------------------------------------------------------------------
(* Vendor Client: get_ohme_url *)

\* an environment variable: unset, or set to a string
Unset == [set |-> FALSE, val |-> <<>>]
SetTo(val) == [set |-> TRUE, val |-> val]

ChargeSessionsPath == <<"/", "v1", "/", "chargeSessions">>

\* os.environ.get("ohme_api_base", ""): no setting and an empty one give the
\* path alone
get_ohme_url_lenient(environ) ==
    Return(urljoin(environ.ohme_api_base.val, ChargeSessionsPath))

\* api.get_ohme_url(), reading os.environ["ohme_api_base"]
get_ohme_url(environ) ==
    IF ~environ.ohme_api_base.set
    THEN Raise(Exc("KeyError", <<"ohme_api_base not set in environment">>))
    ELSE IF environ.ohme_api_base.val = <<>>
    THEN Raise(Exc("ValueError", <<"ohme_api_base is empty">>))
    ELSE Return(urljoin(environ.ohme_api_base.val, ChargeSessionsPath))

-----------------------------------------------------------------------------
(* The process environment *)

\* base URLs: an optional scheme, an optional "//" with an optional host, an
\* optional path; the empty string is among them
BaseUrls ==
    {sch \o net \o path :
        sch \in {<<>>, <<"http", ":">>, <<"mailto", ":">>},
        net \in {<<>>, <<"//">>, <<"//", "example.com">>},
        path \in {<<>>, <<"/">>, <<"/", "api">>}}

Environ(base, username, password, sdk_key) ==
    [ohme_api_base |-> base, ohme_username |-> username,
     ohme_password |-> password, firebase_sdk_key |-> sdk_key]

\* everything configured
FullEnviron ==
    Environ(SetTo(<<"http", ":", "//", "example.com">>), SetTo(<<"user">>),
            SetTo(<<"secret">>), SetTo(<<"sdk-key">>))

-----------------------------------------------------------------------------
(* The functions applied to bounded inputs: the input is drawn in the      *)
(* initial state and one action applies each function to it.               *)

SessionLists == SeqsUpTo(Elems, MaxLen)

\* response dictionaries with a "json" key, and one with "data" in its place
Responses ==
    {Response(200, <<"raw">>, TRUE, j, <<"application/json">>) : j \in JsonValues}
    \cup {Response(200, <<"raw">>, FALSE, JNull, <<"application/json">>)}

Unassigned == [t |-> "unassigned"]

\* no local variable is assigned yet
EmptyFrame ==
    [array_schema |-> Unassigned,
     headers |-> Unassigned, body |-> Unassigned, params |-> Unassigned,
     url |-> Unassigned, response |-> Unassigned, e |-> Unassigned]

\* send_request is not running
NoRequest ==
    [caller |-> "none", method |-> "", url |-> <<>>, headers |-> Unassigned,
     params |-> Unassigned, json |-> Unassigned, response |-> Unassigned,
     e |-> Unassigned, result |-> Unassigned]

\* the schema file: whether it exists, whether it is valid JSON, its content
SchemaFile(exists, parses, content) ==
    [exists |-> exists, parses |-> parses, content |-> content]

\* Validation Core: get_ohme_minimum_schema
SchemaFiles ==
    {SchemaFile(FALSE, FALSE, NotASchema), SchemaFile(TRUE, FALSE, NotASchema),
     SchemaFile(TRUE, TRUE, NotASchema),
     SchemaFile(TRUE, TRUE, MinimumObjectSchema),
     SchemaFile(TRUE, TRUE, ObjectSchema("any", "any", {}))}

\* api.load_file_as_json(schema_path); reads: the times the file was opened
load_file_as_json(file) ==
    IF ~file.exists
    THEN [out |-> Raise(Exc("FileNotFoundError", <<"No such file or directory">>)),
          log |-> <<LogRec("ERROR", "ohme_minimum_schema not found", <<>>)>>,
          reads |-> 1]
    ELSE IF ~file.parses
    THEN [out |-> Raise(Exc("JSONDecodeError", <<"Expecting value">>)),
          log |-> <<LogRec("ERROR", "Error reading ohme_minimum_schema", <<>>)>>,
          reads |-> 1]
    ELSE [out |-> Return(file.content), log |-> <<>>, reads |-> 1]

\* the failure of the load becomes an Exception that names the file
get_ohme_minimum_schema_translated(file) ==
    LET object_schema == load_file_as_json(file)
    IN IF object_schema.out.status = "raise"
       THEN [out |-> Raise(Chained("Exception", <<"Error loading ohme_minimum_schema.json: ">>,
                                   object_schema.out.exc)),
             log |-> object_schema.log
                     \o <<LogRec("ERROR", "Error loading ohme_minimum_schema.json", <<>>)>>,
             reads |-> object_schema.reads]
       ELSE [out |-> Return(ArraySchema(object_schema.out.value)), log |-> <<>>,
             reads |-> object_schema.reads]

\* api.get_ohme_minimum_schema()
get_ohme_minimum_schema(file) ==
    LET object_schema == load_file_as_json(file)
    IN IF object_schema.out.status = "raise"
       THEN [out |-> Raise(object_schema.out.exc),
             log |-> object_schema.log
                     \o <<LogRec("ERROR", "Error loading ohme_minimum_schema.json", <<>>)>>,
             reads |-> object_schema.reads]
       ELSE [out |-> Return(ArraySchema(object_schema.out.value)), log |-> <<>>,
             reads |-> object_schema.reads]

\* parser.load_file_as_json(schema_path)
parser_load_file_as_json(file) ==
    IF ~file.exists
    THEN [out |-> Raise(Exc("FileNotFoundError", <<"No such file or directory">>)),
          log |-> <<LogRec("ERROR", "ohme_minimum_schema not found", <<>>)>>,
          reads |-> 1]
    ELSE IF ~file.parses
    THEN [out |-> Raise(Exc("JSONDecodeError", <<"Expecting value">>)),
          log |-> <<LogRec("ERROR", "Error reading ohme_minimum_schema", <<>>)>>,
          reads |-> 1]
    ELSE [out |-> Return(file.content), log |-> <<>>, reads |-> 1]

\* parser.get_ohme_minimum_schema()
parser_get_ohme_minimum_schema(file) ==
    LET object_schema == parser_load_file_as_json(file)
    IN IF object_schema.out.status = "raise"
       THEN [out |-> Raise(object_schema.out.exc),
             log |-> object_schema.log
                     \o <<LogRec("ERROR", "Error loading ohme_minimum_schema.json", <<>>)>>,
             reads |-> object_schema.reads]
       ELSE [out |-> Return(ArraySchema(object_schema.out.value)), log |-> <<>>,
             reads |-> object_schema.reads]

InitPure ==
    /\ ret = Pending
    /\ log = <<>>
    /\ pc = "apply"
    /\ frame = EmptyFrame
    /\ sr = NoRequest
    /\ raised = <<>>
    /\ sendCalls = 0
    /\ exchanges = 0
    /\ openClients = 0
    /\ fileReads = 0
    /\ calls = 0
    /\ \/ /\ op \in {"api.is_charging_session_active",
                     "parser.is_charging_session_active"}
          /\ arg \in SessionLists
          /\ env = FullEnviron
       \/ /\ op = "parser.validate_against_schema"
          /\ arg \in [array_schema : ArraySchemas, object_to_validate : JsonValues]
          /\ env = FullEnviron
       \/ /\ op = "api.validate_against_schema"
          /\ arg \in [array_schema : ArraySchemas, response : Responses]
          /\ env = FullEnviron
       \/ /\ op = "create_headers"
          /\ arg \in Tokens
          /\ env = FullEnviron
       \/ /\ op = "get_ohme_url"
          /\ arg = <<>>
          /\ env \in {[FullEnviron EXCEPT !.ohme_api_base = b] :
                         b \in {Unset} \cup {SetTo(u) : u \in BaseUrls}}
       \/ /\ op \in {"api.get_ohme_minimum_schema", "parser.get_ohme_minimum_schema"}
          /\ arg = <<>>
          /\ env = FullEnviron
       \/ /\ op = "validate_against_schema, both shapes"
          /\ arg \in [array_schema : ArraySchemas, json : JsonValues]
          /\ env = FullEnviron
    /\ schemaFile \in IF op \in {"api.get_ohme_minimum_schema",
                                  "parser.get_ohme_minimum_schema"}
                      THEN SchemaFiles
                      ELSE {SchemaFile(TRUE, TRUE, MinimumObjectSchema)}

\* the call returns or raises, having logged
Finish(r) ==
    /\ ret' = r.out
    /\ log' = log \o r.log
    /\ UNCHANGED <<op, arg, env, schemaFile, pc, frame, sr, raised, sendCalls,
                   exchanges, openClients, fileReads, calls>>

Apply_is_charging_session_active ==
    /\ ret = Pending
    /\ op = "api.is_charging_session_active"
    /\ Finish(is_charging_session_active(arg))

Apply_parser_is_charging_session_active ==
    /\ ret = Pending
    /\ op = "parser.is_charging_session_active"
    /\ Finish(parser_is_charging_session_active(arg))

Apply_parser_validate_against_schema ==
    /\ ret = Pending
    /\ op = "parser.validate_against_schema"
    /\ Finish(parser_validate_against_schema(arg.array_schema, arg.object_to_validate))

Apply_validate_against_schema ==
    /\ ret = Pending
    /\ op = "api.validate_against_schema"
    /\ Finish(validate_against_schema(arg.array_schema, arg.response))

\* the value a validation returned is validated again, against the same schema
Apply_parser_validate_again ==
    /\ op = "parser.validate_against_schema"
    /\ ret.status = "return"
    /\ LET r == parser_validate_against_schema(arg.array_schema, ret.value)
       IN /\ op' = "parser.validate_against_schema again"
          /\ arg' = [array_schema |-> arg.array_schema, object_to_validate |-> ret.value]
          /\ ret' = r.out
          /\ log' = r.log
          /\ UNCHANGED <<env, schemaFile, pc, frame, sr, raised, sendCalls,
                         exchanges, openClients, fileReads, calls>>

Apply_create_headers ==
    /\ ret = Pending
    /\ op = "create_headers"
    /\ Finish([out |-> create_headers(arg), log |-> <<>>])

Apply_get_ohme_url ==
    /\ ret = Pending
    /\ op = "get_ohme_url"
    /\ Finish([out |-> get_ohme_url(env), log |-> <<>>])

\* the call returns or raises, having logged and having read the schema file
FinishSchema(r) ==
    /\ ret' = r.out
    /\ log' = log \o r.log
    /\ fileReads' = fileReads + r.reads
    /\ UNCHANGED <<op, arg, env, schemaFile, pc, frame, sr, raised, sendCalls,
                   exchanges, openClients, calls>>

Apply_get_ohme_minimum_schema ==
    /\ ret = Pending
    /\ op = "api.get_ohme_minimum_schema"
    /\ FinishSchema(get_ohme_minimum_schema(schemaFile))

Apply_parser_get_ohme_minimum_schema ==
    /\ ret = Pending
    /\ op = "parser.get_ohme_minimum_schema"
    /\ FinishSchema(parser_get_ohme_minimum_schema(schemaFile))

\* the outcomes of the two shapes on one input
Both(api, parser) == [status |-> "both", api |-> api, parser |-> parser]

\* api.validate_against_schema(S, {..., "json": J}) and
\* parser.validate_against_schema(S, J)
Apply_validate_both_shapes ==
    /\ ret = Pending
    /\ op = "validate_against_schema, both shapes"
    /\ LET api == validate_against_schema(
                      arg.array_schema,
                      Response(200, <<"raw">>, TRUE, arg.json, <<"application/json">>))
           parser == parser_validate_against_schema(arg.array_schema, arg.json)
       IN /\ ret' = Both(api, parser)
          /\ log' = api.log \o parser.log
    /\ UNCHANGED <<op, arg, env, schemaFile, pc, frame, sr, raised, sendCalls,
                   exchanges, openClients, fileReads, calls>>

NextPure ==
    \/ Apply_is_charging_session_active
    \/ Apply_parser_is_charging_session_active
    \/ Apply_parser_validate_against_schema
    \/ Apply_validate_against_schema
    \/ Apply_parser_validate_again
    \/ Apply_create_headers
    \/ Apply_get_ohme_url
    \/ Apply_get_ohme_minimum_schema
    \/ Apply_parser_get_ohme_minimum_schema
    \/ Apply_validate_both_shapes

SpecPure == InitPure /\ [][NextPure]_vars

-----------------------------------------------------------------------------
(* Properties of the functions *)

Returned == ret.status = "return"
Raised == ret.status = "raise"

IsActiveCall ==
    /\ op \in {"api.is_charging_session_active", "parser.is_charging_session_active"}
    /\ ret.status # "pending"

\* the record's mode is the string DISCONNECTED
IsDisconnected(r) == r.mtype = "str" /\ r.mode = <<"DISCONNECTED">>

\* C1: for every list of session records, is_charging_session_active returns
\* true if and only if at least one record's mode differs from DISCONNECTED;
\* it returns false for the empty list and for a list of DISCONNECTED records.
C1_ActiveIffSomeModeNotDisconnected ==
    (IsActiveCall /\ \A i \in 1..Len(arg) : arg[i] \in Dicts) =>
        /\ Returned
        /\ ret.value = (\E i \in 1..Len(arg) : ~IsDisconnected(arg[i]))

\* a list that starts with a DISCONNECTED record and has an active one
C1_Witness ==
    /\ IsActiveCall
    /\ Len(arg) >= 2
    /\ arg[1] = DictWithMode(<<"DISCONNECTED">>)
    /\ arg[2] = DictWithMode(<<"RETRIEVING_SOC">>)
    /\ Returned
    /\ ret.value = TRUE

\* the records whose string mode is outside the known set, in order
UnknownModeRecords(cs) == SelectSeq(cs, LAMBDA r : r.mode \notin known_modes)

\* C2: for every list of records with string modes, is_charging_session_active
\* returns a boolean and never fails, and it logs one 'Unknown mode' event for
\* each record whose mode is outside the known set, and no other event.
C2_UnknownModesAreLoggedNotRaised ==
    (IsActiveCall /\ \A i \in 1..Len(arg) : arg[i] \in SessionRecords) =>
        /\ Returned
        /\ ret.value \in BOOLEAN
        /\ Len(log) = Len(UnknownModeRecords(arg))
        /\ \A k \in 1..Len(log) :
              /\ log[k].msg = "Unknown mode"
              /\ log[k].detail = <<PyStr(UnknownModeRecords(arg)[k].mode),
                                   UnknownModeRecords(arg)[k]>>

\* known and unknown modes in one list: one event, for the unknown one
C2_Witness ==
    /\ IsActiveCall
    /\ Len(arg) >= 3
    /\ arg[1] = DictWithMode(<<"SMART_CHARGE">>)
    /\ arg[2] = DictWithMode(<<"UNKNOWN_MODE">>)
    /\ arg[3] = DictWithMode(<<"DISCONNECTED">>)
    /\ Returned
    /\ Len(log) = 1

\* C3: whenever validate_against_schema succeeds it returns the payload it was
\* given, unchanged, and validating the returned value again succeeds and
\* returns the same value.
C3_ValidationReturnsItsInput ==
    /\ (op = "parser.validate_against_schema" /\ Returned) =>
            ret.value = arg.object_to_validate
    /\ op = "parser.validate_against_schema again" =>
            (Returned /\ ret.value = arg.object_to_validate)
    /\ (op = "api.validate_against_schema" /\ Returned) =>
            ret.value = arg.response.json

\* a non-empty array was validated twice
C3_Witness ==
    /\ op = "parser.validate_against_schema again"
    /\ arg.array_schema = MinimumSchema
    /\ Len(arg.object_to_validate.items) >= 2
    /\ Returned

\* some element of the array has no mode, or a mode that is no string
HasBadElement(json) ==
    /\ json.t = "array"
    /\ \E i \in 1..Len(json.items) : json.items[i].mtype # "str"

\* C4: against the minimum schema, validate_against_schema raises a schema
\* validation error whenever one element lacks mode or has a non-string mode,
\* whatever the other elements are; it has logged 'Schema validation failed'
\* and returns no value.
C4_OneBadElementFailsValidation ==
    (/\ op = "parser.validate_against_schema"
     /\ ret.status # "pending"
     /\ arg.array_schema = MinimumSchema
     /\ HasBadElement(arg.object_to_validate)) =>
        /\ Raised
        /\ ret.exc.type = "ValidationError"
        /\ Len(log) = 1
        /\ log[1].msg = "Schema validation failed"
        /\ log[1].detail = ret.exc.msg

\* a valid element, then one without mode
C4_Witness ==
    /\ op = "parser.validate_against_schema"
    /\ arg.array_schema = MinimumSchema
    /\ arg.object_to_validate.t = "array"
    /\ Len(arg.object_to_validate.items) >= 2
    /\ arg.object_to_validate.items[1] = DictWithMode(<<"DISCONNECTED">>)
    /\ arg.object_to_validate.items[2] = DictWithoutMode
    /\ Raised

IsNonEmptyString(x) == x.t = "str" /\ Len(x.v) > 0

\* C8: for every non-empty string token, create_headers returns a header map
\* whose Authorization is 'Firebase ' followed by the token, and whose other
\* five headers are constants.
C8_AuthorizationIsPrefixPlusToken ==
    (op = "create_headers" /\ ret.status # "pending" /\ IsNonEmptyString(arg)) =>
        /\ Returned
        /\ DOMAIN ret.value = HeaderNames
        /\ ret.value["Authorization"] = <<"Firebase ">> \o arg.v
        /\ ret.value["Connection"] = <<"keep-alive">>
        /\ ret.value["Accept"] = <<"*/*">>
        /\ ret.value["User-Agent"] = <<"OhmE/543 CFNetwork/1474 Darwin/23.0.0">>
        /\ ret.value["Accept-Language"] = <<"en-GB,en;q=0.9">>
        /\ ret.value["Accept-Encoding"] = <<"gzip, deflate, br">>

\* headers were made from a token of two pieces
C8_Witness ==
    /\ op = "create_headers"
    /\ IsNonEmptyString(arg)
    /\ Len(arg.v) >= 2
    /\ Returned

\* C9: for every token that is not a non-empty string (None, booleans,
\* numbers, lists, mappings, the empty string), create_headers raises
\* TypeError and returns no header map.
C9_InvalidTokenRaisesTypeError ==
    (op = "create_headers" /\ ret.status # "pending" /\ ~IsNonEmptyString(arg)) =>
        (Raised /\ ret.exc.type = "TypeError")

\* the empty string was refused
C9_Witness ==
    /\ op = "create_headers"
    /\ arg = PyStr(<<>>)
    /\ Raised

\* an http base URL with a host and no trailing slash
IsPlainHttpBase(b) ==
    /\ b.set
    /\ Len(b.val) >= 4
    /\ SubSeq(b.val, 1, 3) = <<"http", ":", "//">>
    /\ b.val[4] # "/"
    /\ b.val[Len(b.val)] # "/"

\* C10: get_ohme_url returns the configured base URL with /v1/chargeSessions
\* appended to it, for every non-empty base, and fails when the setting is
\* absent or empty.
C10_UrlIsBasePlusPath ==
    (op = "get_ohme_url" /\ ret.status # "pending") =>
        /\ IsPlainHttpBase(env.ohme_api_base) =>
              (Returned /\ ret.value = env.ohme_api_base.val \o ChargeSessionsPath)
        /\ (~env.ohme_api_base.set \/ env.ohme_api_base.val = <<>>) => Raised

-----------------------------------------------------------------------------
(* Transport Adapter: send_request *)

\* the exception classes below httpx.HTTPError
HTTPErrorTypes == {"ConnectError", "ReadTimeout", "UnsupportedProtocol", "HTTPStatusError"}
IsHTTPError(e) == e.type \in HTTPErrorTypes

\* a response body: text that is a JSON document, or text that is none
JsonBody(doc) == [parses |-> TRUE, doc |-> doc]
NotJsonBody == [parses |-> FALSE, doc |-> JNull]

\* what the vendor endpoint may answer with
VendorBodies ==
    {NotJsonBody}
    \cup {JsonBody(j) : j \in {JNull, JObject(NoFields)}
                              \cup {JArray(items) : items \in SeqsUpTo(Elems, MaxBodyLen)}}

\* what the identity provider may answer with
TokenFieldValues ==
    {Absent, PyStr(<<>>), PyStr(<<"3600">>), PyStr(<<"abc">>), PyInt(<<"3600">>)}
KindValues == {Absent, PyStr(<<"identitytoolkit#VerifyPasswordResponse">>)}
IdentityObjects ==
    {JObject([k \in FieldNames |-> IF k = "kind" THEN kind ELSE f[k]]) :
        f \in [TokenFieldNames -> TokenFieldValues], kind \in KindValues}
IdentityBodies ==
    {NotJsonBody, JsonBody(JNull), JsonBody(JArray(<<>>))}
    \cup {JsonBody(j) : j \in IdentityObjects}

FirebaseUrl ==
    <<"https", ":", "//", "www.googleapis.com", "/",
      "identitytoolkit/v3/relyingparty/verifyPassword">>

\* an httpx.Response
HttpResponse(status_code, content, content_type) ==
    [status_code |-> status_code, content |-> content, content_type |-> content_type]

\* the responses a server may give to a request for url
HttpResponses(url) ==
    LET bodies == IF url = FirebaseUrl THEN IdentityBodies ELSE VendorBodies
    IN {HttpResponse(200, b, ct) : b \in bodies,
                                    ct \in {<<"application/json">>, <<"text/plain">>}}
       \cup {HttpResponse(st, b, <<"text/plain">>) :
                st \in {302, 404, 500}, b \in {NotJsonBody, JsonBody(JObject(NoFields))}}

\* the failures of client.send: two below httpx.HTTPError, one that is not
SendFailures ==
    {Exc("ConnectError", <<"All connection attempts failed">>),
     Exc("ReadTimeout", <<"The read operation timed out">>),
     Exc("RuntimeError", <<"Cannot send a request, as the client has been closed.">>)}

\* a request can be sent to an http(s) URL with a host only
IsAbsoluteHttpUrl(url) ==
    /\ urlsplit(url).scheme \in {<<"http">>, <<"https">>}
    /\ urlsplit(url).netloc # <<>>

\* response.json(), with ValueError turned into None (make_requests.py:53-56)
ParseJson(response) ==
    IF response.content.parses THEN response.content.doc ELSE JNull

\* a body that is no JSON leaves the response dictionary without a "json" key
response_data_nojson(response) ==
    Response(response.status_code, response.content, response.content.parses,
             ParseJson(response), response.content_type)

\* the response dictionary of make_requests.py:59-64
response_data(response) ==
    Response(response.status_code, response.content, TRUE, ParseJson(response),
             response.content_type)

\* the call send_request(method, url, headers, params, json=...) by caller
EnterSendRequest(caller, method, url, headers, params, json) ==
    /\ sr' = [NoRequest EXCEPT !.caller = caller, !.method = method, !.url = url,
                               !.headers = headers, !.params = params, !.json = json]
    /\ sendCalls' = sendCalls + 1
    /\ pc' = "sr_client"

\* with httpx.Client(timeout=10.0) as client:
SR_OpenClient ==
    /\ pc = "sr_client"
    /\ openClients' = openClients + 1
    /\ pc' = "sr_send"
    /\ UNCHANGED <<op, arg, ret, log, env, schemaFile, frame, sr, raised, sendCalls,
                   exchanges, fileReads, calls>>

\* response = client.send(request): a response, or an exception
SR_Send ==
    /\ pc = "sr_send"
    /\ IF ~IsAbsoluteHttpUrl(sr.url)
       THEN /\ sr' = [sr EXCEPT !.e = Exc("UnsupportedProtocol",
                                          <<"Request URL is missing a protocol or a host">>)]
            /\ raised' = Append(raised, [by |-> "client.send", exc |-> sr'.e])
            /\ pc' = "sr_exit"
            /\ UNCHANGED exchanges
       ELSE /\ exchanges' = exchanges + 1
            /\ \/ \E e \in SendFailures :
                    /\ sr' = [sr EXCEPT !.e = e]
                    /\ raised' = Append(raised, [by |-> "client.send", exc |-> e])
                    /\ pc' = "sr_exit"
               \/ \E r \in HttpResponses(sr.url) :
                    /\ sr' = [sr EXCEPT !.response = r]
                    /\ pc' = "sr_status"
                    /\ UNCHANGED raised
    /\ UNCHANGED <<op, arg, ret, log, env, schemaFile, frame, sendCalls, openClients,
                   fileReads, calls>>

\* only the server errors raise
raise_for_status_raises_5xx(status_code, raisesForRedirect) == status_code >= 500

\* whether response.raise_for_status() raises: for 4xx and 5xx, and for 3xx in
\* the httpx releases that raise for every status that is no success
raise_for_status_raises(status_code, raisesForRedirect) ==
    \/ status_code >= 400
    \/ (status_code >= 300 /\ raisesForRedirect)

\* response.raise_for_status()
SR_RaiseForStatus ==
    /\ pc = "sr_status"
    /\ \E raisesForRedirect \in BOOLEAN :
          IF raise_for_status_raises(sr.response.status_code, raisesForRedirect)
          THEN /\ sr' = [sr EXCEPT !.e = Exc("HTTPStatusError",
                                             <<"error response ",
                                               ToString(sr.response.status_code)>>)]
               /\ raised' = Append(raised, [by |-> "raise_for_status", exc |-> sr'.e])
               /\ pc' = "sr_exit"
          ELSE /\ pc' = "sr_json"
               /\ UNCHANGED <<sr, raised>>
    /\ UNCHANGED <<op, arg, ret, log, env, schemaFile, frame, sendCalls, exchanges,
                   openClients, fileReads, calls>>

\* json_data = response.json() or None; response_data = {...}
SR_BuildResponseData ==
    /\ pc = "sr_json"
    /\ sr' = [sr EXCEPT !.result = response_data(sr.response)]
    /\ pc' = "sr_exit"
    /\ UNCHANGED <<op, arg, ret, log, env, schemaFile, frame, raised, sendCalls,
                   exchanges, openClients, fileReads, calls>>

\* the client is closed when the block is left by return only
Client_exit_onreturn(open, e) == IF e # Unassigned THEN open ELSE open - 1

\* httpx.Client.__exit__: the client is closed, whatever e left the block with
Client_exit(open, e) == open - 1

\* the with block is left, by return or by an exception: the client is closed
SR_CloseClient ==
    /\ pc = "sr_exit"
    /\ openClients' = Client_exit(openClients, sr.e)
    /\ pc' = IF sr.e # Unassigned THEN "sr_except" ELSE "sr_return"
    /\ UNCHANGED <<op, arg, ret, log, env, schemaFile, frame, sr, raised, sendCalls,
                   exchanges, fileReads, calls>>

\* every exception becomes a SendRequestError that keeps neither text nor cause
send_request_raises_opaque(e, url) ==
    Exc("SendRequestError", <<"HTTP error occurred while sending request to ">> \o url)

\* the exception that leaves send_request (make_requests.py:68-75)
send_request_raises(e, url) ==
    IF IsHTTPError(e)
    THEN Chained("SendRequestError",
                 <<"HTTP error occurred while sending request to ">> \o url \o <<": ">>, e)
    ELSE e

\* the caller sends the request again when send_request raises
AfterSendRequestRaises_retry(caller) ==
    IF caller = "get_charging_sessions" THEN "gcs_send" ELSE "gft_send"

\* where an exception of send_request takes its caller: to the except clause
\* around the call (api.py:110, firebase.py:109-111)
AfterSendRequestRaises(caller) ==
    IF caller = "get_charging_sessions" THEN "gcs_except" ELSE "gft_except"

\* return response_data: the caller goes on with the response
SR_Return ==
    /\ pc = "sr_return"
    /\ frame' = [frame EXCEPT !.response = sr.result]
    /\ pc' = IF sr.caller = "get_charging_sessions" THEN "gcs_validate" ELSE "gft_check"
    /\ UNCHANGED <<op, arg, ret, log, env, schemaFile, sr, raised, sendCalls, exchanges,
                   openClients, fileReads, calls>>

\* except httpx.HTTPError / except Exception: logger.exception(e), whose record
\* has str(e) for its text
SR_Except ==
    /\ pc = "sr_except"
    /\ log' = Append(log, LogRec("ERROR", "logger.exception", sr.e.msg))
    /\ pc' = "sr_raise"
    /\ UNCHANGED <<op, arg, ret, env, schemaFile, frame, sr, raised, sendCalls, exchanges,
                   openClients, fileReads, calls>>

\* raise SendRequestError(...) from e / raise e: the exception reaches the caller
SR_Raise ==
    /\ pc = "sr_raise"
    /\ frame' = [frame EXCEPT !.e = send_request_raises(sr.e, sr.url)]
    /\ raised' = Append(raised, [by |-> "send_request", exc |-> frame'.e])
    /\ pc' = AfterSendRequestRaises(sr.caller)
    /\ UNCHANGED <<op, arg, ret, log, env, schemaFile, sr, sendCalls, exchanges,
                   openClients, fileReads, calls>>

-----------------------------------------------------------------------------
(* Vendor Client: get_charging_sessions *)

\* the tokens get_charging_sessions is called with
SessionTokens ==
    {None, [t |-> "list", v |-> <<"x">>], PyStr(<<>>), PyStr(<<"a">>), PyStr(<<"a", "b">>)}

\* a call starts: what the previous call left is cleared
StartCall(name, argument, first) ==
    /\ pc = "idle"
    /\ calls < MaxCalls
    /\ calls' = calls + 1
    /\ op' = name
    /\ arg' = argument
    /\ ret' = Pending
    /\ log' = <<>>
    /\ frame' = EmptyFrame
    /\ sr' = NoRequest
    /\ raised' = <<>>
    /\ sendCalls' = 0
    /\ exchanges' = 0
    /\ pc' = first
    /\ UNCHANGED <<env, schemaFile, openClients, fileReads>>

\* get_charging_sessions(firebase_token) is called
GCS_Call ==
    \E firebase_token \in SessionTokens :
        /\ StartCall("get_charging_sessions", firebase_token, "gcs_schema")

\* a statement of the try block raised e: on to the except clause
GCS_Raise(by, e, logged) ==
    /\ frame' = [frame EXCEPT !.e = e]
    /\ raised' = Append(raised, [by |-> by, exc |-> e])
    /\ log' = log \o logged
    /\ pc' = "gcs_except"

\* array_of_ohme_charge_sessions = get_ohme_minimum_schema()
GCS_Schema ==
    /\ pc = "gcs_schema"
    /\ LET r == get_ohme_minimum_schema(schemaFile)
       IN /\ fileReads' = fileReads + r.reads
          /\ IF r.out.status = "raise"
             THEN GCS_Raise("get_ohme_minimum_schema", r.out.exc, r.log)
             ELSE /\ frame' = [frame EXCEPT !.array_schema = r.out.value]
                  /\ pc' = "gcs_headers"
                  /\ UNCHANGED <<raised, log>>
    /\ UNCHANGED <<op, arg, ret, env, schemaFile, sr, sendCalls, exchanges,
                   openClients, calls>>

\* headers = create_headers(firebase_token)
GCS_Headers ==
    /\ pc = "gcs_headers"
    /\ LET r == create_headers(arg)
       IN IF r.status = "raise"
          THEN GCS_Raise("create_headers", r.exc, <<>>)
          ELSE /\ frame' = [frame EXCEPT !.headers = r.value]
               /\ pc' = "gcs_url"
               /\ UNCHANGED <<raised, log>>
    /\ UNCHANGED <<op, arg, ret, env, schemaFile, sr, sendCalls, exchanges,
                   openClients, fileReads, calls>>

\* url = get_ohme_url()
GCS_Url ==
    /\ pc = "gcs_url"
    /\ LET r == get_ohme_url(env)
       IN IF r.status = "raise"
          THEN GCS_Raise("get_ohme_url", r.exc, <<>>)
          ELSE /\ frame' = [frame EXCEPT !.url = r.value]
               /\ pc' = "gcs_send"
               /\ UNCHANGED <<raised, log>>
    /\ UNCHANGED <<op, arg, ret, env, schemaFile, sr, sendCalls, exchanges,
                   openClients, fileReads, calls>>

\* response = send_request("GET", url, headers)
GCS_SendRequest ==
    /\ pc = "gcs_send"
    /\ EnterSendRequest("get_charging_sessions", "GET", frame.url, frame.headers,
                        None, None)
    /\ UNCHANGED <<op, arg, ret, log, env, schemaFile, frame, raised, exchanges,
                   openClients, fileReads, calls>>

\* charge_sessions = validate_against_schema(...); return charge_sessions
GCS_Validate ==
    /\ pc = "gcs_validate"
    /\ LET r == validate_against_schema(frame.array_schema, frame.response)
       IN IF r.out.status = "raise"
          THEN /\ GCS_Raise("validate_against_schema", r.out.exc, r.log)
               /\ UNCHANGED ret
          ELSE /\ ret' = Return(r.out.value)
               /\ pc' = "idle"
               /\ UNCHANGED <<frame, raised, log>>
    /\ UNCHANGED <<op, arg, env, schemaFile, sr, sendCalls, exchanges, openClients,
                   fileReads, calls>>

\* a new exception with the context in its message, from e
gcs_reraise_wrapped(e) ==
    Chained("Exception", <<"Failed to fetch or validate charging sessions: ">>, e)

\* what the except clause of api.py:110-112 raises for the exception e
gcs_reraise(e) == e

\* except Exception as e: logging.error(...); raise e
GCS_Except ==
    /\ pc = "gcs_except"
    /\ log' = Append(log, LogRec("ERROR", "Failed to fetch or validate charging sessions",
                                 frame.e.msg))
    /\ ret' = Raise(gcs_reraise(frame.e))
    /\ pc' = "idle"
    /\ UNCHANGED <<op, arg, env, schemaFile, frame, sr, raised, sendCalls, exchanges,
                   openClients, fileReads, calls>>

-----------------------------------------------------------------------------
(* Identity Client: get_firebase_token *)

\* firebase.get_firebase_auth_headers()
get_firebase_auth_headers ==
    [h \in {"Content-Type", "Accept", "X-Firebase-Locale", "X-Ios-Bundle-Identifier",
            "Connection", "X-Client-Version", "User-Agent", "Accept-Language",
            "Accept-Encoding"} |->
        CASE h = "Content-Type" -> <<"application/json">>
          [] h = "Accept" -> <<"*/*">>
          [] h = "X-Firebase-Locale" -> <<"en">>
          [] h = "X-Ios-Bundle-Identifier" -> <<"io.ohme.ios.OhmE">>
          [] h = "Connection" -> <<"keep-alive">>
          [] h = "X-Client-Version" -> <<"iOS/FirebaseSDK/8.2.0/FirebaseUI-iOS">>
          [] h = "User-Agent" ->
               <<"FirebaseAuth.iOS/8.2.0 io.ohme.ios.OhmE/1.28.1 iPhone/17.0.3 hw/iPhone15_2">>
          [] h = "Accept-Language" -> <<"en">>
          [] h = "Accept-Encoding" -> <<"gzip, deflate, br">>]

\* os.environ.get(name, ""): a missing setting reads as the empty string
Environ_getitem_default(environ, name) ==
    Return(IF environ[name].set THEN environ[name].val ELSE <<>>)

\* os.environ[name]
Environ_getitem(environ, name) ==
    IF environ[name].set THEN Return(environ[name].val)
    ELSE Raise(Exc("KeyError", <<name>>))

\* firebase.get_firebase_auth_body()
get_firebase_auth_body(environ) ==
    LET username == Environ_getitem(environ, "ohme_username")
        password == Environ_getitem(environ, "ohme_password")
    IN IF username.status = "raise" THEN username
       ELSE IF password.status = "raise" THEN password
       ELSE Return([email |-> username.value, password |-> password.value,
                    returnSecureToken |-> TRUE])

\* firebase.get_firebase_sdk_key()
get_firebase_sdk_key(environ) == Environ_getitem(environ, "firebase_sdk_key")

\* get_firebase_token() is called
GFT_Call ==
    StartCall("get_firebase_token", <<>>, "gft_prepare")

\* firebase.py:67-73: headers, body, request_url and params, outside the try
GFT_Prepare ==
    /\ pc = "gft_prepare"
    /\ LET body == get_firebase_auth_body(env)
           key == get_firebase_sdk_key(env)
           failed == IF body.status = "raise" THEN body ELSE key
       IN IF failed.status = "raise"
          THEN /\ ret' = failed
               /\ raised' = Append(raised, [by |-> "os.environ", exc |-> failed.exc])
               /\ pc' = "idle"
               /\ UNCHANGED frame
          ELSE /\ frame' = [frame EXCEPT
                               !.headers = get_firebase_auth_headers,
                               !.body = body.value,
                               !.url = urljoin(<<"https", ":", "//", "www.googleapis.com">>,
                                               <<"/", "identitytoolkit/v3/relyingparty/verifyPassword">>),
                               !.params = [key |-> key.value]]
               /\ pc' = "gft_send"
               /\ UNCHANGED <<ret, raised>>
    /\ UNCHANGED <<op, arg, log, env, schemaFile, sr, sendCalls, exchanges, openClients,
                   fileReads, calls>>

\* response = send_request("POST", request_url, headers=..., json=body, params=...)
GFT_SendRequest ==
    /\ pc = "gft_send"
    /\ EnterSendRequest("get_firebase_token", "POST", frame.url, frame.headers,
                        frame.params, frame.body)
    /\ UNCHANGED <<op, arg, ret, log, env, schemaFile, frame, raised, exchanges,
                   openClients, fileReads, calls>>

\* only the presence of the key is tested
Truthy_present(value) == value # Absent

\* bool(response_data.get(name)): a missing key and an empty string are falsy
Truthy(value) == value # Absent /\ value.v # <<>>

\* the whole response JSON is returned
firebase_token_all(response_data_json) == response_data_json.fields

\* the dictionary of firebase.py:103-107
firebase_token(response_data_json) ==
    [k \in TokenFieldNames |-> response_data_json.fields[k]]

\* firebase.py:80-107: the checks of the response, and the token returned
GFT_Check ==
    /\ pc = "gft_check"
    /\ LET response_data_json == frame.response.json
           raise(by, e) ==
               /\ frame' = [frame EXCEPT !.e = e]
               /\ raised' = Append(raised, [by |-> by, exc |-> e])
               /\ pc' = "gft_except"
               /\ UNCHANGED ret
       IN IF response_data_json = JNull
          THEN raise("json is None",
                     Exc("Exception", <<"Error getting firebase token: ", "Invalid JSON: ",
                                        "response">>))
          ELSE IF response_data_json.t # "object"
          THEN raise("response_data.get",
                     Exc("AttributeError", <<"'list' object has no attribute 'get'">>))
          ELSE IF \E k \in TokenFieldNames : ~Truthy(response_data_json.fields[k])
          THEN raise("missing field",
                     Exc("Exception", <<"Error getting firebase token: ", "response">>))
          ELSE /\ ret' = Return(firebase_token(response_data_json))
               /\ pc' = "idle"
               /\ UNCHANGED <<frame, raised>>
    /\ UNCHANGED <<op, arg, log, env, schemaFile, sr, sendCalls, exchanges, openClients,
                   fileReads, calls>>

\* a new Exception with a text of its own, not raised from e
get_firebase_token_raises_nocause(e) ==
    Exc("Exception", <<"Error getting firebase token">>)

\* the exception that leaves the try block of get_firebase_token
\* (firebase.py:109-112)
get_firebase_token_raises(e) ==
    IF IsHTTPError(e)
    THEN Chained("Exception", <<"HTTP error occurred while sending request: ">>, e)
    ELSE Chained("Exception", <<"An unexpected error occurred: ">>, e)

\* except httpx.HTTPError / except Exception: a new Exception from e
GFT_Except ==
    /\ pc = "gft_except"
    /\ ret' = Raise(get_firebase_token_raises(frame.e))
    /\ pc' = "idle"
    /\ UNCHANGED <<op, arg, log, env, schemaFile, frame, sr, raised, sendCalls,
                   exchanges, openClients, fileReads, calls>>

-----------------------------------------------------------------------------
(* The client in its environment *)

\* everything configured, or one setting missing, or two, or the base URL
\* empty or without a scheme
Environs ==
    {FullEnviron,
     [FullEnviron EXCEPT !.ohme_api_base = Unset],
     [FullEnviron EXCEPT !.ohme_api_base = SetTo(<<>>)],
     [FullEnviron EXCEPT !.ohme_api_base = SetTo(<<"example.com">>)],
     [FullEnviron EXCEPT !.ohme_username = Unset],
     [FullEnviron EXCEPT !.ohme_password = Unset],
     [FullEnviron EXCEPT !.firebase_sdk_key = Unset],
     [FullEnviron EXCEPT !.ohme_password = Unset, !.firebase_sdk_key = Unset]}

Init ==
    /\ op = "none"
    /\ arg = <<>>
    /\ ret = Pending
    /\ log = <<>>
    /\ env \in Environs
    /\ schemaFile \in SchemaFiles
    /\ pc = "idle"
    /\ frame = EmptyFrame
    /\ sr = NoRequest
    /\ raised = <<>>
    /\ sendCalls = 0
    /\ exchanges = 0
    /\ openClients = 0
    /\ fileReads = 0
    /\ calls = 0

Next ==
    \/ GCS_Call
    \/ GCS_Schema
    \/ GCS_Headers
    \/ GCS_Url
    \/ GCS_SendRequest
    \/ GCS_Validate
    \/ GCS_Except
    \/ GFT_Call
    \/ GFT_Prepare
    \/ GFT_SendRequest
    \/ GFT_Check
    \/ GFT_Except
    \/ SR_OpenClient
    \/ SR_Send
    \/ SR_RaiseForStatus
    \/ SR_BuildResponseData
    \/ SR_CloseClient
    \/ SR_Return
    \/ SR_Except
    \/ SR_Raise

Spec == Init /\ [][Next]_vars

-----------------------------------------------------------------------------
(* Properties of the client *)

\* the call of name has returned or raised
Completed(name) == op = name /\ pc = "idle" /\ ret.status # "pending"

FailedToFetch(l) == l.msg = "Failed to fetch or validate charging sessions"

\* C5: whichever step of get_charging_sessions fails (schema load, header
\* creation, URL resolution, transport call, validation), the call logs one
\* 'Failed to fetch or validate charging sessions' error, last, and raises the
\* exception the failing step raised, unchanged; a call raises only what a
\* step raised, and no failure becomes a return value.
C5_LogsOnceAndRaisesTheSameException ==
    Completed("get_charging_sessions") =>
        /\ Raised <=> raised # <<>>
        /\ raised # <<>> =>
              /\ raised[Len(raised)].by \in
                    {"get_ohme_minimum_schema", "create_headers", "get_ohme_url",
                     "send_request", "validate_against_schema"}
              /\ ret.exc = raised[Len(raised)].exc
              /\ Len(SelectSeq(log, FailedToFetch)) = 1
              /\ FailedToFetch(log[Len(log)])
        /\ raised = <<>> => SelectSeq(log, FailedToFetch) = <<>>

\* the transport call failed and its SendRequestError came out of the call
C5_Witness ==
    /\ Completed("get_charging_sessions")
    /\ Raised
    /\ raised[Len(raised)].by = "send_request"
    /\ ret.exc.type = "SendRequestError"
    /\ exchanges = 1

\* C6: when send_request returns a response whose JSON is an array that
\* satisfies the minimum schema, get_charging_sessions returns exactly that
\* array, having called send_request once, with GET, the URL of get_ohme_url
\* and the headers made from the token.
C6_ReturnsTheValidatedArray ==
    (/\ Completed("get_charging_sessions")
     /\ schemaFile = SchemaFile(TRUE, TRUE, MinimumObjectSchema)
     /\ frame.response # Unassigned
     /\ frame.response.json.t = "array"
     /\ \A i \in 1..Len(frame.response.json.items) :
           frame.response.json.items[i] \in SessionRecords) =>
        /\ Returned
        /\ ret.value = frame.response.json
        /\ sendCalls = 1
        /\ sr.method = "GET"
        /\ sr.url = get_ohme_url(env).value
        /\ sr.headers = create_headers(arg).value
        /\ sr.headers["Authorization"] = <<"Firebase ">> \o arg.v

\* the vendor answered [{"mode": "CALCULATING"}]
C6_Witness ==
    /\ Completed("get_charging_sessions")
    /\ schemaFile = SchemaFile(TRUE, TRUE, MinimumObjectSchema)
    /\ Returned
    /\ ret.value = JArray(<<DictWithMode(<<"CALCULATING">>)>>)

TransportFailed ==
    \E i \in 1..Len(raised) : raised[i].by \in {"client.send", "raise_for_status"}

\* C7: within one call of get_charging_sessions or of get_firebase_token,
\* send_request is called at most once and performs at most one HTTP exchange;
\* a call in which the transport failed ends in failure.
C7_NoRetries ==
    /\ sendCalls <= 1
    /\ exchanges <= sendCalls
    /\ (pc = "idle" /\ TransportFailed) => Raised

\* a call that ended after one exchange that failed
C7_Witness ==
    /\ pc = "idle"
    /\ TransportFailed
    /\ exchanges = 1
    /\ sendCalls = 1
    /\ Raised

\* s ends with t
EndsWith(s, t) == Len(s) >= Len(t) /\ SubSeq(s, Len(s) - Len(t) + 1, Len(s)) = t

\* piece is one of the pieces of s
HasPiece(s, piece) == \E i \in 1..Len(s) : s[i] = piece

\* send_request is past raise_for_status and past the parse of the body, after
\* an exchange that succeeded with a body that is no JSON
NonJsonBodyReceived ==
    /\ sr.response # Unassigned
    /\ ~sr.response.content.parses
    /\ sr.response.status_code < 300
    /\ pc \notin {"sr_status", "sr_json"}

\* C11: after a successful exchange whose body cannot be parsed as JSON,
\* send_request raises nothing and returns a response dictionary that has the
\* status code, the raw body and the headers of the response and a "json" key
\* whose value is null, whatever the Content-Type; its caller receives it.
C11_NonJsonBodyIsReturnedWithNullJson ==
    NonJsonBodyReceived =>
        /\ sr.e = Unassigned
        /\ pc \notin {"sr_except", "sr_raise"}
        /\ sr.result # Unassigned
        /\ sr.result.hasJson
        /\ sr.result.json = JNull
        /\ sr.result.status_code = sr.response.status_code
        /\ sr.result.raw_data = sr.response.content
        /\ sr.result.headers = sr.response.content_type
        /\ pc \notin {"sr_exit", "sr_return"} => frame.response = sr.result

\* the vendor answered 200 with Content-Type application/json and a body that
\* is no JSON, and get_charging_sessions has the response dictionary
C11_Witness ==
    /\ pc = "gcs_validate"
    /\ NonJsonBodyReceived
    /\ sr.response.content_type = <<"application/json">>
    /\ frame.response.hasJson
    /\ frame.response.json = JNull

\* an exception of send_request has reached the caller
SendRequestRaised == sr.e # Unassigned /\ pc \notin {"sr_exit", "sr_except", "sr_raise"}

\* the record logger.exception(e) makes
ExceptionRecord(e) == LogRec("ERROR", "logger.exception", e.msg)

\* C12: send_request logs every failure and then raises: an httpx.HTTPError
\* (failed send, error status) leaves as a SendRequestError whose message ends
\* with the text of the original and whose cause is the original; any other
\* exception leaves unchanged; the log record exists before the exception
\* leaves, and a failed send_request gives its caller no response.
C12_SendRequestLogsThenPropagates ==
    /\ pc = "sr_raise" =>
          /\ log # <<>>
          /\ log[Len(log)] = ExceptionRecord(sr.e)
          /\ frame.e = Unassigned
    /\ SendRequestRaised =>
          /\ HasPiece(log, ExceptionRecord(sr.e))
          /\ frame.e # Unassigned
          /\ IsHTTPError(sr.e) =>
                /\ frame.e.type = "SendRequestError"
                /\ frame.e.cause = <<sr.e>>
                /\ EndsWith(frame.e.msg, sr.e.msg)
          /\ ~IsHTTPError(sr.e) => frame.e = sr.e
          /\ sr.result = Unassigned
          /\ frame.response = Unassigned
          /\ pc = "idle" => Raised

\* raise_for_status raised for a 404 and get_firebase_token has the
\* SendRequestError
C12_Witness ==
    /\ pc = "gft_except"
    /\ SendRequestRaised
    /\ sr.e.type = "HTTPStatusError"
    /\ sr.response.status_code = 404
    /\ frame.e.type = "SendRequestError"

\* the statements inside the with block of send_request
InClientScope == pc \in {"sr_send", "sr_status", "sr_json", "sr_exit"}

\* C13: at most one HTTP client scope is open at any time, one is open only
\* while send_request is inside its with block, and none is open once
\* send_request has returned or raised, after any number of calls.
C13_ClientScopeAlwaysReleased ==
    /\ openClients \in {0, 1}
    /\ openClients = 1 <=> InClientScope

\* the second call of the process: the send failed and the scope is closed
C13_Witness ==
    /\ calls = 2
    /\ pc = "sr_except"
    /\ sr.e.type = "ConnectError"
    /\ openClients = 0

\* the field is missing from the object, or is the empty string
MissingOrEmpty(value) == value \in {Absent, PyStr(<<>>)}

\* get_firebase_token ended after send_request gave it a response
TokenCallEndedWithResponse ==
    Completed("get_firebase_token") /\ frame.response # Unassigned

ParseableAsInteger(value) == value.t = "str" /\ value.v = <<"3600">>

\* C15: every token get_firebase_token returns has non-empty strings for
\* idToken, expiresIn and refreshToken, and an expiresIn that parses as an
\* integer, whatever JSON body the identity provider answered with.
C15_ReturnedTokenSatisfiesInvariant ==
    (Completed("get_firebase_token") /\ Returned) =>
        /\ \A k \in TokenFieldNames : ret.value[k].t = "str" /\ ret.value[k].v # <<>>
        /\ ParseableAsInteger(ret.value["expiresIn"])

\* C16: on success get_firebase_token returns a mapping with exactly the keys
\* idToken, expiresIn, refreshToken, each value the one of the response JSON,
\* and nothing else of the response; it made one request: a POST to the
\* verifyPassword endpoint with the auth headers, the credentials as the JSON
\* body and the API key as the query parameter key.
C16_ReturnsTheThreeFieldsOfOnePost ==
    (Completed("get_firebase_token") /\ Returned) =>
        /\ DOMAIN ret.value = TokenFieldNames
        /\ \A k \in TokenFieldNames : ret.value[k] = frame.response.json.fields[k]
        /\ sendCalls = 1
        /\ exchanges = 1
        /\ sr.method = "POST"
        /\ sr.url = <<"https", ":", "//", "www.googleapis.com", "/",
                      "identitytoolkit/v3/relyingparty/verifyPassword">>
        /\ sr.headers = get_firebase_auth_headers
        /\ sr.json = [email |-> env.ohme_username.val, password |-> env.ohme_password.val,
                      returnSecureToken |-> TRUE]
        /\ sr.params = [key |-> env.firebase_sdk_key.val]

\* the answer had a kind field besides the three, and a token was returned
C16_Witness ==
    /\ Completed("get_firebase_token")
    /\ Returned
    /\ frame.response.json.fields["kind"] # Absent
    /\ ret.value["idToken"] = PyStr(<<"3600">>)

\* C17: every exception that leaves get_firebase_token after the request was
\* attempted is a new Exception whose message ends with the text of the
\* original error and whose cause is the original error, be it the error of
\* send_request or one raised by the checks of the response.
C17_WrapperKeepsTheCause ==
    (Completed("get_firebase_token") /\ Raised /\ sendCalls >= 1) =>
        /\ raised # <<>>
        /\ ret.exc.type = "Exception"
        /\ ret.exc.cause = <<raised[Len(raised)].exc>>
        /\ EndsWith(ret.exc.msg, raised[Len(raised)].exc.msg)
        /\ raised[Len(raised)].by \in
              {"send_request", "json is None", "response_data.get", "missing field"}

\* the send timed out: the wrapper's cause is the SendRequestError, whose cause
\* is the ReadTimeout
C17_Witness ==
    /\ Completed("get_firebase_token")
    /\ Raised
    /\ sendCalls = 1
    /\ ret.exc.cause[1].type = "SendRequestError"
    /\ ret.exc.cause[1].cause[1].type = "ReadTimeout"

\* the settings of get_firebase_token that are not in the environment
MissingSettings ==
    {k \in {"ohme_username", "ohme_password", "firebase_sdk_key"} : ~env[k].set}

\* C18: when ohme_username, ohme_password or firebase_sdk_key is absent,
\* get_firebase_token raises a KeyError that names a missing setting, and no
\* request is sent during the call.
C18_MissingSettingFailsBeforeAnyRequest ==
    (op = "get_firebase_token" /\ MissingSettings # {}) =>
        /\ sendCalls = 0
        /\ exchanges = 0
        /\ pc \in {"gft_prepare", "idle"}
        /\ pc = "idle" =>
              /\ Raised
              /\ ret.exc.type = "KeyError"
              /\ \E k \in MissingSettings : ret.exc.msg = <<k>>

\* password and API key are both absent: the KeyError names the password
C18_Witness ==
    /\ Completed("get_firebase_token")
    /\ MissingSettings = {"ohme_password", "firebase_sdk_key"}
    /\ Raised
    /\ ret.exc.msg = <<"ohme_password">>
    /\ sendCalls = 0

-----------------------------------------------------------------------------
(* Properties of the functions: the response shape and the schema loader *)

\* C19: given a response dictionary without a "json" key,
\* api.validate_against_schema raises an Exception whose first argument is
\* 'No json field in response to array_schema request'; the schema is not
\* looked at and 'Schema validation failed' is not logged.
C19_NoJsonFieldFailsBeforeValidation ==
    (op = "api.validate_against_schema" /\ ret.status # "pending"
     /\ ~arg.response.hasJson) =>
        /\ Raised
        /\ ret.exc.type = "Exception"
        /\ ret.exc.msg[1] = "No json field in response to array_schema request"
        /\ log = <<>>

\* the response has no "json" key and the schema is no valid schema: the
\* error is the one of the missing key, not a SchemaError
C19_Witness ==
    /\ op = "api.validate_against_schema"
    /\ ~arg.response.hasJson
    /\ ~arg.array_schema.items.ok
    /\ Raised
    /\ ret.exc.type = "Exception"

IsSchemaCall ==
    /\ op \in {"api.get_ohme_minimum_schema", "parser.get_ohme_minimum_schema"}
    /\ ret.status # "pending"

\* C20: get_ohme_minimum_schema reads the schema file once; when the file is
\* there and is JSON it returns the draft-07 array schema whose items is the
\* content of the file; when the file is missing it raises FileNotFoundError
\* and when it is no JSON it raises JSONDecodeError, each as raised by the
\* load, not wrapped in another exception.
C20_ArraySchemaOfTheFileOrItsError ==
    IsSchemaCall =>
        /\ fileReads = 1
        /\ (schemaFile.exists /\ schemaFile.parses) =>
              /\ Returned
              /\ ret.value.type = "array"
              /\ ret.value.schema = "http://json-schema.org/draft-07/schema#"
              /\ ret.value.items = schemaFile.content
        /\ ~schemaFile.exists =>
              /\ Raised
              /\ ret.exc.type = "FileNotFoundError"
              /\ ret.exc.cause = <<>>
        /\ (schemaFile.exists /\ ~schemaFile.parses) =>
              /\ Raised
              /\ ret.exc.type = "JSONDecodeError"
              /\ ret.exc.cause = <<>>

\* the file is missing and FileNotFoundError came out of api's loader
C20_Witness ==
    /\ op = "api.get_ohme_minimum_schema"
    /\ ~schemaFile.exists
    /\ Raised
    /\ ret.exc.type = "FileNotFoundError"
    /\ fileReads = 1

BothShapesApplied ==
    op = "validate_against_schema, both shapes" /\ ret.status = "both"

\* C21: for every schema S and JSON value J, api.validate_against_schema(S,
\* response with json = J) returns exactly when parser.validate_against_schema
\* (S, J) returns; both then return J; otherwise both raise the same
\* ValidationError or SchemaError and each logs the same one 'Schema
\* validation failed' record.
C21_TheTwoShapesAgree ==
    BothShapesApplied =>
        /\ ret.api.out.status = ret.parser.out.status
        /\ ret.api.out.status = "return" =>
              /\ ret.api.out.value = arg.json
              /\ ret.parser.out.value = arg.json
              /\ ret.api.log = <<>>
              /\ ret.parser.log = <<>>
        /\ ret.api.out.status = "raise" =>
              /\ ret.api.out.exc = ret.parser.out.exc
              /\ ret.api.out.exc.type \in {"ValidationError", "SchemaError"}
              /\ ret.api.log = ret.parser.log
              /\ Len(ret.api.log) = 1
              /\ ret.api.log[1].msg = "Schema validation failed"
              /\ ret.api.log[1].detail = ret.api.out.exc.msg

\* an array whose second element has a number for a mode: both shapes raise
C21_Witness ==
    /\ BothShapesApplied
    /\ arg.array_schema = MinimumSchema
    /\ arg.json.t = "array"
    /\ Len(arg.json.items) >= 2
    /\ arg.json.items[1] = DictWithMode(<<"SMART_CHARGE">>)
    /\ arg.json.items[2] = DictWithIntMode
    /\ ret.api.out.status = "raise"
    /\ ret.parser.out.status = "raise"

-----------------------------------------------------------------------------
(* Properties of the client, continued *)

\* C22: over any sequence of get_charging_sessions calls of one process, the
\* schema file is read at most once.
C22_SchemaFileReadAtMostOnce == fileReads <= 1

\* get_firebase_token ended with the SendRequestError of send_request
TokenCallFailedInTransport ==
    /\ Completed("get_firebase_token")
    /\ raised # <<>>
    /\ raised[Len(raised)].by = "send_request"
    /\ raised[Len(raised)].exc.type = "SendRequestError"

\* C23: a transport failure that send_request reports as SendRequestError
\* leaves get_firebase_token wrapped with 'HTTP error occurred while sending
\* request', not with 'An unexpected error occurred'.
C23_TransportFailureTakesTheHttpBranch ==
    TokenCallFailedInTransport =>
        /\ Raised
        /\ ret.exc.msg[1] = "HTTP error occurred while sending request: "

\* the schema file is missing or is no JSON
SchemaUnreadable == ~schemaFile.exists \/ ~schemaFile.parses

\* ohme_api_base is not set, or is the empty string
BaseUrlUnusable == ~env.ohme_api_base.set \/ env.ohme_api_base.val = <<>>

\* C24: get_charging_sessions calls send_request only after the schema was
\* loaded, the headers were made and the URL was resolved, in that order: with
\* an unreadable schema file the call fails in the schema load, else with an
\* invalid token in create_headers, else with a missing or empty base URL in
\* get_ohme_url, and in each case send_request was never called.
C24_NoRequestBeforePreparation ==
    op = "get_charging_sessions" =>
        /\ sendCalls >= 1 =>
              (~SchemaUnreadable /\ IsNonEmptyString(arg) /\ ~BaseUrlUnusable)
        /\ (pc = "idle" /\ (SchemaUnreadable \/ ~IsNonEmptyString(arg) \/ BaseUrlUnusable)) =>
              /\ Raised
              /\ sendCalls = 0
              /\ exchanges = 0
              /\ Len(raised) = 1
              /\ raised[1].by =
                    IF SchemaUnreadable THEN "get_ohme_minimum_schema"
                    ELSE IF ~IsNonEmptyString(arg) THEN "create_headers"
                    ELSE "get_ohme_url"

\* the token is None and the base URL is not set: the call failed in
\* create_headers, before any request
C24_Witness ==
    /\ Completed("get_charging_sessions")
    /\ ~SchemaUnreadable
    /\ arg = None
    /\ ~env.ohme_api_base.set
    /\ Raised
    /\ ret.exc.type = "TypeError"
    /\ sendCalls = 0

\* get_charging_sessions ended, with the minimum schema in the schema file
EndedUnderMinimumSchema ==
    /\ Completed("get_charging_sessions")
    /\ schemaFile = SchemaFile(TRUE, TRUE, MinimumObjectSchema)

\* C25: under the minimum schema, what get_charging_sessions returns is an
\* array whose elements are objects with a string mode, on which
\* is_charging_session_active returns; when the response's json is null or is
\* no array the call raises.
C25_ReturnedValueIsAnArrayOfSessions ==
    EndedUnderMinimumSchema =>
        /\ Returned =>
              /\ ret.value.t = "array"
              /\ \A i \in 1..Len(ret.value.items) :
                    ret.value.items[i].kind = "dict" /\ ret.value.items[i].mtype = "str"
              /\ is_charging_session_active(ret.value.items).out.status = "return"
              /\ parser_is_charging_session_active(ret.value.items).out.status = "return"
        /\ (frame.response # Unassigned /\ frame.response.json.t # "array") => Raised

\* the vendor answered 200 with a body that is no JSON: the call raised
\* ValidationError
C25_Witness ==
    /\ EndedUnderMinimumSchema
    /\ frame.response # Unassigned
    /\ ~sr.response.content.parses
    /\ frame.response.json = JNull
    /\ Raised
    /\ ret.exc.type = "ValidationError"

\* C26: every response dictionary send_request returns has a status code
\* below 400: after an exchange that ended with 4xx or 5xx no dictionary is
\* built, the caller gets none and its call raises, so neither
\* get_charging_sessions nor get_firebase_token looks at an error body.
C26_NoResponseForAnErrorStatus ==
    /\ sr.result # Unassigned => sr.result.status_code < 400
    /\ frame.response # Unassigned => frame.response.status_code < 400
    /\ pc \in {"gcs_validate", "gft_check"} => sr.response.status_code < 400
    /\ (sr.response # Unassigned /\ sr.response.status_code >= 400
        /\ pc \notin {"sr_status"}) =>
          /\ sr.result = Unassigned
          /\ frame.response = Unassigned
          /\ pc = "idle" => Raised

\* the server answered 500 with a JSON body and the call raised without a
\* response dictionary
C26_Witness ==
    /\ pc = "idle"
    /\ sr.response # Unassigned
    /\ sr.response.status_code = 500
    /\ sr.response.content.parses
    /\ frame.response = Unassigned
    /\ Raised

====
